---- MODULE Spec2Model ----
(***************************************************************************)
(* Odia Lipi: the debounce / request orchestration of App.tsx, the         *)
(* transliteration client (services/geminiService) and the bounded history *)
(* list.                                                                   *)
(*                                                                         *)
(* Strings are sequences of one-character strings, so that trim(),         *)
(* toLowerCase() and length are computed as JavaScript computes them.      *)
(* One action is one macrotask of the browser's event loop: an event       *)
(* handler (or timer callback, or promise continuation) together with the  *)
(* React render and the effects that its state updates cause.              *)
(* copyToClipboard and isCopied touch no other state and are left out.     *)
(***************************************************************************)
EXTENDS Integers, Sequences, FiniteSets, TLC

(* ------------------------------ bounds -------------------------------- *)

\* The 800 ms debounce delay (App.tsx:33), measured in ticks of the model clock.
DelayTicks == 2

\* Number of transliteration requests one run may dispatch.
MaxDispatch == 2

\* Number of direct calls of transliterateToOdia in the client harness.
MaxClientCalls == 2

\* Number of insertions the history harness applies to a drawn history.
MaxInserts == 1

\* Number of originals, different up to case, the history harness draws from.
NKeys == 12

(* ------------------------- program constants --------------------------- *)

\* [newItem, ...filtered].slice(0, 10)
HistoryCap == 10

\* text.length > 2
MinHistoryLen == 2

(* ------------------------------ strings -------------------------------- *)

WhiteSpace == {" "}

Min(a, b) == IF a < b THEN a ELSE b

\* String.prototype.toLowerCase, character by character
LowerChar(c) ==
  CASE c = "A" -> "a"
    [] c = "B" -> "b"
    [] c = "C" -> "c"
    [] c = "D" -> "d"
    [] OTHER -> c

toLowerCase(s) == [i \in 1..Len(s) |-> LowerChar(s[i])]

\* String.prototype.trim: drops leading and trailing white space
trim(s) ==
  LET keep == {i \in 1..Len(s) : s[i] \notin WhiteSpace}
  IN  IF keep = {} THEN <<>>
      ELSE LET lo == CHOOSE i \in keep : \A j \in keep : i <= j
               hi == CHOOSE i \in keep : \A j \in keep : j <= i
           IN  SubSeq(s, lo, hi)

\* Array.prototype.slice(0, n)
slice(s, n) == SubSeq(s, 1, Min(n, Len(s)))


(* ------------------------------- texts --------------------------------- *)

\* What the user can put into the input box: empty, white space only, a text
\* too short for the history, and texts that differ in case only or in a letter.
Texts ==
  { <<>>, <<" ">>, <<"a", "b">>, <<"a", "b", "c">>, <<"A", "B", "C">> }

\* What the external service can answer: response.text is undefined, empty,
\* white space only, or Odia text with or without surrounding white space.
RawResponses ==
  { [hasText |-> FALSE, text |-> <<>>],
    [hasText |-> TRUE,  text |-> <<>>],
    [hasText |-> TRUE,  text |-> <<" ">>],
    [hasText |-> TRUE,  text |-> <<" ", "o", " ">>],
    [hasText |-> TRUE,  text |-> <<"p">>] }

(* ------------------------------ messages ------------------------------- *)

NoError == "null"

ConfigMsg == "API Key is missing. Please check your environment configuration."

GenericMsg == "Failed to transliterate text. Please try again."

FallbackMsg == "Something went wrong."

(* ------------------------------- state --------------------------------- *)

VARIABLES
  apiKey,          \* process.env.API_KEY is set (geminiService: apiKey)
  inputText,       \* useState('')
  outputText,      \* useState('')
  isLoading,       \* useState(false)
  error,           \* useState<string | null>(null)
  history,         \* useState<HistoryItem[]>([])
  autoMode,        \* useState(true)
  debouncedInput,  \* useDebounce: debouncedValue
  timer,           \* useDebounce: the pending setTimeout, with the value it captured
  inflight,        \* calls of handleTransliterate suspended at the await, oldest first
  dispatched,      \* history variable: calls of transliterateToOdia made by the app
  serviceCalls,    \* history variable: calls of ai.models.generateContent
  burst,           \* history variable: the current run of input updates
  selected,        \* history variable: inputText was last changed by onSelect
  lastOp,          \* history variable: the step taken last
  latest,          \* history variable: what became of the request dispatched last
  client,          \* client harness: the direct call of transliterateToOdia
  upsertArgs       \* history harness: the insertion applied last

appVars == <<inputText, outputText, isLoading, error, history, autoMode,
             debouncedInput, timer, inflight>>

reqVars == <<isLoading, error, inflight, dispatched, serviceCalls, latest>>

harnessVars == <<client, upsertArgs>>

vars == <<apiKey, inputText, outputText, isLoading, error, history, autoMode,
          debouncedInput, timer, inflight, dispatched, serviceCalls, burst,
          selected, lastOp, latest, client, upsertArgs>>

\* The value of lastOp after the step called name; stale and replaced are set by
\* the steps that apply a response, sent by the steps that dispatch a request.
Op(name) == [name |-> name, stale |-> FALSE, replaced |-> FALSE, sent |-> FALSE]

NoTimer == [left |-> 0, value |-> <<>>]

Pending(t) == t.left > 0

NoBurst == [len |-> 0, changes |-> 0, elapsed |-> 0, base |-> <<>>]

IdleClient ==
  [calls |-> 0, text |-> <<>>, kind |-> "idle", value |-> <<>>, message |-> "",
   requests |-> 0]

NoUpsert == [inserts |-> 0, text |-> <<>>, result |-> <<>>, prev |-> <<>>]

(* ----------------------- transliteration client ------------------------ *)

\* transliterateToOdia without its check of the key
transliterateToOdiaNoKeyCheck(text) ==
  IF trim(text) = <<>>
    THEN [kind |-> "return", value |-> <<>>, message |-> ""]
    ELSE [kind |-> "request", value |-> <<>>, message |-> ""]

\* transliterateToOdia without its check for blank text
transliterateToOdiaNoBlankCheck(text) ==
  IF ~apiKey
    THEN [kind |-> "throw", value |-> <<>>, message |-> ConfigMsg]
    ELSE [kind |-> "request", value |-> <<>>, message |-> ""]

\* transliterateToOdia up to its await: it throws, returns, or issues the request
transliterateToOdia(text) ==
  IF ~apiKey
    THEN [kind |-> "throw", value |-> <<>>, message |-> ConfigMsg]
    ELSE IF trim(text) = <<>>
      THEN [kind |-> "return", value |-> <<>>, message |-> ""]
      ELSE [kind |-> "request", value |-> <<>>, message |-> ""]

\* response.text?.trim() || ""
responseText(raw) == IF raw.hasText THEN trim(raw.text) ELSE <<>>

\* generateContent resolved: return response.text?.trim() || ""
requestResolved(raw) == [kind |-> "return", value |-> responseText(raw), message |-> ""]

\* generateContent rejected: the catch block rethrows the one generic error
requestRejected == [kind |-> "throw", value |-> <<>>, message |-> GenericMsg]

(* ------------------------------ history -------------------------------- *)

\* the comparison without toLowerCase
differentOriginalCaseSensitive(original, text) == original # text

\* p.original.toLowerCase() !== text.toLowerCase()
differentOriginal(original, text) == toLowerCase(original) # toLowerCase(text)

\* the updater without slice(0, 10)
upsertNoSlice(prev, text, result) ==
  LET newItem  == [original |-> text, transliterated |-> result]
      filtered == SelectSeq(prev, LAMBDA p : differentOriginal(p.original, text))
  IN  <<newItem>> \o filtered

\* the updater putting the new item last: [...filtered, newItem].slice(0, 10)
upsertAppend(prev, text, result) ==
  LET newItem  == [original |-> text, transliterated |-> result]
      filtered == SelectSeq(prev, LAMBDA p : differentOriginal(p.original, text))
  IN  slice(filtered \o <<newItem>>, HistoryCap)

\* the setHistory updater: filter, prepend, slice(0, 10). A HistoryItem is
\* its original and transliterated; id and timestamp (Date.now()) are written
\* and never read by a handler, and are left out.
upsert(prev, text, result) ==
  LET newItem  == [original |-> text, transliterated |-> result]
      filtered == SelectSeq(prev, LAMBDA p : differentOriginal(p.original, text))
  IN  slice(<<newItem>> \o filtered, HistoryCap)


(* ------------------------------- Init ---------------------------------- *)

\* The state after the first render and its effects: the debounce effect has
\* started its first timer, the auto effect found the debounced input empty.
Init ==
  /\ apiKey \in BOOLEAN
  /\ inputText = <<>>
  /\ outputText = <<>>
  /\ isLoading = FALSE
  /\ error = NoError
  /\ history = <<>>
  /\ autoMode = TRUE
  /\ debouncedInput = <<>>
  /\ timer = [left |-> DelayTicks, value |-> <<>>]
  /\ inflight = <<>>
  /\ dispatched = 0
  /\ serviceCalls = 0
  /\ burst = NoBurst
  /\ selected = FALSE
  /\ lastOp = Op("mount")
  /\ latest = "none"
  /\ client = IdleClient
  /\ upsertArgs = NoUpsert

(* --------------------------- the debouncer ----------------------------- *)

\* the effect without its cleanup taking effect: a pending timer stays, and no
\* timer is set for the new value
useDebounceEffectNoRestart(pending, value) ==
  IF Pending(pending) THEN pending ELSE [left |-> DelayTicks, value |-> value]

\* The effect of useDebounce on a changed value: the cleanup of the previous
\* run clears its timer, then a new timer is set that captures the value.
useDebounceEffect(pending, value) == [left |-> DelayTicks, value |-> value]

\* History variable: an update less than the delay after the previous one
\* continues the run of updates, any other update starts a new run.
burstAfterUpdate ==
  IF burst.len > 0 /\ burst.elapsed < DelayTicks
    THEN [burst EXCEPT !.len = Min(@ + 1, 2), !.elapsed = 0]
    ELSE [len |-> 1, changes |-> 0, elapsed |-> 0, base |-> debouncedInput]

\* setInputText(value) and the render after it; bySelect tells the history
\* variable who wrote the value.
setInputText(value, bySelect) ==
  /\ inputText' = value
  /\ IF value # inputText
       THEN /\ timer' = useDebounceEffect(timer, value)
            /\ burst' = burstAfterUpdate
            /\ selected' = bySelect
       ELSE UNCHANGED <<timer, burst, selected>>

(* -------------------------- the orchestrator --------------------------- *)

\* A promise that is already settled resumes its await in a microtask, before
\* any other event is handled.
MicrotaskPending == \E i \in 1..Len(inflight) : inflight[i].call.kind # "request"

\* handleTransliterate without setError(null)
handleTransliterateKeepsError(text) ==
  IF trim(text) = <<>>
    THEN /\ outputText' = <<>>
         /\ UNCHANGED reqVars
    ELSE /\ dispatched < MaxDispatch
         /\ isLoading' = TRUE
         /\ inflight' = Append(inflight,
                          [text |-> text, call |-> transliterateToOdia(text), stale |-> FALSE])
         /\ latest' = "pending"
         /\ dispatched' = dispatched + 1
         /\ serviceCalls' = serviceCalls +
                              (IF transliterateToOdia(text).kind = "request" THEN 1 ELSE 0)
         /\ UNCHANGED <<outputText, error>>

\* handleTransliterate without its check for blank text
handleTransliterateNoBlankCheck(text) ==
  /\ dispatched < MaxDispatch
  /\ isLoading' = TRUE
  /\ error' = NoError
  /\ inflight' = Append(inflight,
                   [text |-> text, call |-> transliterateToOdia(text), stale |-> FALSE])
  /\ latest' = "pending"
  /\ dispatched' = dispatched + 1
  /\ serviceCalls' = serviceCalls +
                       (IF transliterateToOdia(text).kind = "request" THEN 1 ELSE 0)
  /\ UNCHANGED outputText

\* handleTransliterate up to its await (App.tsx 38-47)
handleTransliterate(text) ==
  IF trim(text) = <<>>
    THEN /\ outputText' = <<>>
         /\ UNCHANGED reqVars
    ELSE /\ dispatched < MaxDispatch
         /\ isLoading' = TRUE
         /\ error' = NoError
         /\ inflight' = Append(inflight,
                          [text |-> text, call |-> transliterateToOdia(text), stale |-> FALSE])
         /\ latest' = "pending"
         /\ dispatched' = dispatched + 1
         /\ serviceCalls' = serviceCalls +
                              (IF transliterateToOdia(text).kind = "request" THEN 1 ELSE 0)
         /\ UNCHANGED outputText

\* the effect without its test of autoMode
autoEffectAnyMode(mode, debounced) ==
  IF debounced # <<>>
    THEN handleTransliterate(debounced)
    ELSE /\ outputText' = <<>>
         /\ UNCHANGED reqVars

\* The auto-transliteration effect (App.tsx 73-79), run after a render in which
\* debouncedInput or autoMode changed.
autoEffect(mode, debounced) ==
  IF mode /\ debounced # <<>>
    THEN handleTransliterate(debounced)
    ELSE IF debounced = <<>>
      THEN /\ outputText' = <<>>
           /\ UNCHANGED reqVars
      ELSE UNCHANGED <<outputText, reqVars>>

\* History variable: entry i of inflight is the request dispatched last; its
\* outcome is recorded when it settles.
latestAfter(i, outcome) ==
  IF latest = "pending" /\ i = Len(inflight) THEN outcome ELSE latest

\* inflight without entry i; a success marks the entries dispatched before it
RemoveAt(s, i, mark) ==
  [j \in 1..(Len(s) - 1) |->
     IF j < i THEN [s[j] EXCEPT !.stale = @ \/ mark] ELSE s[j + 1]]

\* the success path without the test text.length > 2 && result
handleSuccessAlwaysInserts(i, result) ==
  /\ outputText' = result
  /\ history' = upsert(history, inflight[i].text, result)
  /\ isLoading' = FALSE
  /\ inflight' = RemoveAt(inflight, i, TRUE)
  /\ latest' = latestAfter(i, "ok")
  /\ UNCHANGED <<error, serviceCalls>>

\* the success path reading the current input instead of its own text
handleSuccessCurrentInput(i, result) ==
  /\ outputText' = result
  /\ history' = IF Len(inputText) > MinHistoryLen /\ result # <<>>
                  THEN upsert(history, inputText, result)
                  ELSE history
  /\ isLoading' = FALSE
  /\ inflight' = RemoveAt(inflight, i, TRUE)
  /\ latest' = latestAfter(i, "ok")
  /\ UNCHANGED <<error, serviceCalls>>

\* handleTransliterate after the await, no exception (App.tsx 48-63, 68)
handleSuccess(i, result) ==
  LET text == inflight[i].text
  IN  /\ outputText' = result
      /\ history' = IF Len(text) > MinHistoryLen /\ result # <<>>
                      THEN upsert(history, text, result)
                      ELSE history
      /\ isLoading' = FALSE
      /\ inflight' = RemoveAt(inflight, i, TRUE)
      /\ latest' = latestAfter(i, "ok")
      /\ UNCHANGED <<error, serviceCalls>>

\* the failure path clearing the output as well
handleFailureClearsOutput(i, message) ==
  /\ error' = (IF message = "" THEN FallbackMsg ELSE message)
  /\ outputText' = <<>>
  /\ isLoading' = FALSE
  /\ inflight' = RemoveAt(inflight, i, FALSE)
  /\ latest' = latestAfter(i, "failed")
  /\ UNCHANGED <<history, serviceCalls>>

\* handleTransliterate after the await, exception caught (App.tsx 65-69)
handleFailure(i, message) ==
  /\ error' = (IF message = "" THEN FallbackMsg ELSE message)
  /\ isLoading' = FALSE
  /\ inflight' = RemoveAt(inflight, i, FALSE)
  /\ latest' = latestAfter(i, "failed")
  /\ UNCHANGED <<outputText, history, serviceCalls>>

\* History variable: the response for text puts an entry in the place of one
\* that has the same original up to case.
replaces(text, result) ==
  /\ Len(text) > MinHistoryLen
  /\ result # <<>>
  /\ \E k \in 1..Len(history) : ~differentOriginal(history[k].original, text)

(* ------------------------------ actions -------------------------------- *)

\* onChange of the input box
onChange(value) ==
  /\ ~MicrotaskPending
  /\ value # inputText
  /\ setInputText(value, FALSE)
  /\ lastOp' = Op("onChange")
  /\ UNCHANGED <<apiKey, outputText, isLoading, error, history, autoMode,
                 debouncedInput, inflight, dispatched, serviceCalls, latest, harnessVars>>

\* One tick of the clock passes and the pending timer is not yet due.
Tick ==
  /\ ~MicrotaskPending
  /\ timer.left > 1
  /\ timer' = [timer EXCEPT !.left = @ - 1]
  /\ burst' = [burst EXCEPT !.elapsed = Min(@ + 1, DelayTicks)]
  /\ lastOp' = Op("Tick")
  /\ UNCHANGED <<apiKey, inputText, outputText, isLoading, error, history, autoMode,
                 debouncedInput, inflight, dispatched, serviceCalls, selected,
                 latest, harnessVars>>

\* The tick at which the delay has elapsed: the timer callback sets the
\* debounced value, and a changed debounced value runs the auto effect.
timerCallback ==
  /\ ~MicrotaskPending
  /\ timer.left = 1
  /\ timer' = NoTimer
  /\ debouncedInput' = timer.value
  /\ burst' = [burst EXCEPT !.elapsed = Min(@ + 1, DelayTicks),
                            !.changes = IF timer.value # debouncedInput
                                          THEN Min(@ + 1, 2) ELSE @]
  /\ IF timer.value # debouncedInput
       THEN autoEffect(autoMode, timer.value)
       ELSE UNCHANGED <<outputText, reqVars>>
  /\ lastOp' = [Op("timerCallback") EXCEPT !.sent = dispatched' > dispatched]
  /\ UNCHANGED <<apiKey, inputText, history, autoMode, selected, harnessVars>>

\* The mode button: setAutoMode(!autoMode), then the auto effect
toggleAutoMode ==
  /\ ~MicrotaskPending
  /\ autoMode' = ~autoMode
  /\ autoEffect(~autoMode, debouncedInput)
  /\ lastOp' = [Op("toggleAutoMode") EXCEPT !.sent = dispatched' > dispatched]
  /\ UNCHANGED <<apiKey, inputText, history, debouncedInput, timer, burst, selected,
                 harnessVars>>

\* the button without disabled={isLoading || !inputText}
manualTriggerWhileLoading ==
  /\ ~MicrotaskPending
  /\ ~autoMode
  /\ handleTransliterate(inputText)
  /\ lastOp' = [Op("manualTrigger") EXCEPT !.sent = dispatched' > dispatched]
  /\ UNCHANGED <<apiKey, inputText, history, autoMode, debouncedInput, timer, burst,
                 selected, harnessVars>>

\* The Transliterate button of manual mode
manualTrigger ==
  /\ ~MicrotaskPending
  /\ ~autoMode
  /\ ~isLoading
  /\ inputText # <<>>
  /\ handleTransliterate(inputText)
  /\ lastOp' = [Op("manualTrigger") EXCEPT !.sent = dispatched' > dispatched]
  /\ UNCHANGED <<apiKey, inputText, history, autoMode, debouncedInput, timer, burst,
                 selected, harnessVars>>

\* a clear that empties the history as well
clearAllAndHistory ==
  /\ ~MicrotaskPending
  /\ setInputText(<<>>, FALSE)
  /\ outputText' = <<>>
  /\ error' = NoError
  /\ history' = <<>>
  /\ lastOp' = Op("clearAll")
  /\ UNCHANGED <<apiKey, isLoading, autoMode, debouncedInput, inflight,
                 dispatched, serviceCalls, latest, harnessVars>>

\* The clear button
clearAll ==
  /\ ~MicrotaskPending
  /\ setInputText(<<>>, FALSE)
  /\ outputText' = <<>>
  /\ error' = NoError
  /\ lastOp' = Op("clearAll")
  /\ UNCHANGED <<apiKey, isLoading, history, autoMode, debouncedInput, inflight,
                 dispatched, serviceCalls, latest, harnessVars>>

\* A click on entry i of the history panel
onSelect(i) ==
  /\ ~MicrotaskPending
  /\ i \in 1..Len(history)
  /\ setInputText(history[i].original, TRUE)
  /\ outputText' = history[i].transliterated
  /\ lastOp' = Op("onSelect")
  /\ UNCHANGED <<apiKey, isLoading, error, history, autoMode, debouncedInput,
                 inflight, dispatched, serviceCalls, latest, harnessVars>>

\* Clear History; the panel is rendered only for a non-empty history
onClear ==
  /\ ~MicrotaskPending
  /\ history # <<>>
  /\ history' = <<>>
  /\ lastOp' = Op("onClear")
  /\ UNCHANGED <<apiKey, inputText, outputText, isLoading, error, autoMode,
                 debouncedInput, timer, inflight, dispatched, serviceCalls, burst,
                 selected, latest, harnessVars>>

\* The await of a call that threw or returned before any request resumes.
awaitSettled(i) ==
  /\ i \in 1..Len(inflight)
  /\ inflight[i].call.kind # "request"
  /\ IF inflight[i].call.kind = "throw"
       THEN handleFailure(i, inflight[i].call.message)
       ELSE handleSuccess(i, inflight[i].call.value)
  /\ lastOp' = Op("awaitSettled")
  /\ UNCHANGED <<apiKey, inputText, autoMode, debouncedInput, timer, dispatched,
                 burst, selected, harnessVars>>

\* The service answers request i.
serviceResolves(i, raw) ==
  /\ ~MicrotaskPending
  /\ i \in 1..Len(inflight)
  /\ inflight[i].call.kind = "request"
  /\ handleSuccess(i, requestResolved(raw).value)
  /\ lastOp' = [name |-> "serviceResolves",
                stale |-> inflight[i].stale,
                replaced |-> replaces(inflight[i].text, requestResolved(raw).value),
                sent |-> FALSE]
  /\ UNCHANGED <<apiKey, inputText, autoMode, debouncedInput, timer, dispatched,
                 burst, selected, harnessVars>>

\* a failure answered by sending the request again
serviceRejectsRetry(i) ==
  /\ ~MicrotaskPending
  /\ i \in 1..Len(inflight)
  /\ inflight[i].call.kind = "request"
  /\ serviceCalls < MaxDispatch + 1
  /\ serviceCalls' = serviceCalls + 1
  /\ lastOp' = Op("serviceRejects")
  /\ UNCHANGED <<apiKey, appVars, dispatched, burst, selected, latest, harnessVars>>

\* Request i fails (transport, authentication, service).
serviceRejects(i) ==
  /\ ~MicrotaskPending
  /\ i \in 1..Len(inflight)
  /\ inflight[i].call.kind = "request"
  /\ handleFailure(i, requestRejected.message)
  /\ lastOp' = Op("serviceRejects")
  /\ UNCHANGED <<apiKey, inputText, autoMode, debouncedInput, timer, dispatched,
                 burst, selected, harnessVars>>

Next ==
  \/ \E value \in Texts : onChange(value)
  \/ Tick
  \/ timerCallback
  \/ toggleAutoMode
  \/ manualTrigger
  \/ clearAll
  \/ \E i \in 1..HistoryCap : onSelect(i)
  \/ onClear
  \/ \E i \in 1..MaxDispatch : awaitSettled(i)
  \/ \E i \in 1..MaxDispatch, raw \in RawResponses : serviceResolves(i, raw)
  \/ \E i \in 1..MaxDispatch : serviceRejects(i)

Spec == Init /\ [][Next]_vars


\* The runs of the application in which every request is dispatched by the
\* manual trigger.
ManualNext == Next /\ (dispatched' # dispatched => lastOp'.name = "manualTrigger")

ManualSpec == Init /\ [][ManualNext]_vars

(* --------------------------- client harness ---------------------------- *)

\* Texts handed to transliterateToOdia directly: every string of at most two
\* characters over two letters and the blank.
ClientChars == {"a", "B", " "}

ClientTexts ==
  {<<>>} \cup {<<c>> : c \in ClientChars} \cup {<<c, d>> : c, d \in ClientChars}

\* A caller invokes transliterateToOdia(text); the call runs up to its await.
clientCall(text) ==
  /\ client.kind # "request"
  /\ client.calls < MaxClientCalls
  /\ client' = [calls    |-> client.calls + 1,
                text     |-> text,
                kind     |-> transliterateToOdia(text).kind,
                value    |-> transliterateToOdia(text).value,
                message  |-> transliterateToOdia(text).message,
                requests |-> IF transliterateToOdia(text).kind = "request" THEN 1 ELSE 0]
  /\ serviceCalls' = serviceCalls +
                       (IF transliterateToOdia(text).kind = "request" THEN 1 ELSE 0)
  /\ UNCHANGED <<apiKey, appVars, dispatched, burst, selected, lastOp, latest,
                 upsertArgs>>

\* The service answers the direct call.
clientResolves(raw) ==
  /\ client.kind = "request"
  /\ client' = [client EXCEPT !.kind = requestResolved(raw).kind,
                              !.value = requestResolved(raw).value,
                              !.message = requestResolved(raw).message]
  /\ UNCHANGED <<apiKey, appVars, dispatched, serviceCalls, burst, selected, lastOp,
                 latest, upsertArgs>>

\* The request of the direct call fails.
clientRejects ==
  /\ client.kind = "request"
  /\ client' = [client EXCEPT !.kind = requestRejected.kind,
                              !.value = requestRejected.value,
                              !.message = requestRejected.message]
  /\ UNCHANGED <<apiKey, appVars, dispatched, serviceCalls, burst, selected, lastOp,
                 latest, upsertArgs>>

ClientNext ==
  \/ \E text \in ClientTexts : clientCall(text)
  \/ \E raw \in RawResponses : clientResolves(raw)
  \/ clientRejects

ClientSpec == Init /\ [][ClientNext]_vars

(* --------------------------- history harness --------------------------- *)

Letters == <<"a", "b", "c", "d">>

UpperChar(c) ==
  CASE c = "a" -> "A"
    [] c = "b" -> "B"
    [] c = "c" -> "C"
    [] c = "d" -> "D"
    [] OTHER -> c

\* Key k: a text of three letters, different up to case from every other key;
\* in upper case when upper is true.
Key(k, upper) ==
  LET low == <<"a", Letters[((k \div 4) % 4) + 1], Letters[(k % 4) + 1]>>
  IN  IF upper THEN [i \in 1..3 |-> UpperChar(low[i])] ELSE low

Results == {<<"o">>, <<"p">>}

\* Histories the program can hold: n entries with the keys first, first + 1, ...,
\* every third of them (from phase on) in upper case.
DrawnHistory(n, first, phase) ==
  [j \in 1..n |->
     [original       |-> Key((first + j) % NKeys, (j + phase) % 3 = 0),
      transliterated |-> IF j % 2 = 0 THEN <<"o">> ELSE <<"p">>]]

HistoryInit ==
  /\ apiKey = TRUE
  /\ inputText = <<>>
  /\ outputText = <<>>
  /\ isLoading = FALSE
  /\ error = NoError
  /\ \E n \in 0..HistoryCap, first \in 0..(NKeys - 1), phase \in 0..1 :
       history = DrawnHistory(n, first, phase)
  /\ autoMode = TRUE
  /\ debouncedInput = <<>>
  /\ timer = NoTimer
  /\ inflight = <<>>
  /\ dispatched = 0
  /\ serviceCalls = 0
  /\ burst = NoBurst
  /\ selected = FALSE
  /\ lastOp = Op("mount")
  /\ latest = "none"
  /\ client = IdleClient
  /\ upsertArgs = NoUpsert

\* The setHistory updater applied for a response result to a request text
\* (App.tsx 51-62: text.length > 2 and result non-empty).
historyInsert(text, result) ==
  /\ upsertArgs.inserts < MaxInserts
  /\ Len(text) > MinHistoryLen
  /\ result # <<>>
  /\ history' = upsert(history, text, result)
  /\ upsertArgs' = [inserts |-> upsertArgs.inserts + 1, text |-> text,
                    result |-> result, prev |-> history]
  /\ UNCHANGED <<apiKey, inputText, outputText, isLoading, error, autoMode,
                 debouncedInput, timer, inflight, dispatched, serviceCalls, burst,
                 selected, lastOp, latest, client>>

HistoryNext ==
  \E k \in 0..(NKeys - 1), upper \in BOOLEAN, result \in Results :
    historyInsert(Key(k, upper), result)

HistorySpec == HistoryInit /\ [][HistoryNext]_vars

(* -------------------------------- claims ------------------------------- *)

\* C1 (as claimed): a response that arrives after the response of a request
\* dispatched later has been applied does not change the output.
C1_LateResponseKeepsOutput ==
  [][(lastOp'.name = "serviceResolves" /\ lastOp'.stale) => outputText' = outputText]_vars

\* C2 (as claimed): once a run of updates, each less than the delay after the
\* one before, has settled, the debounced value has changed exactly once.
C2_ChangesExactlyOnce ==
  (burst.len > 0 /\ ~Pending(timer)) => burst.changes = 1

\* C2 (amended): while a run of updates is going on the pending timer holds the
\* last value and the debounced value stays what it was before the run; once the
\* delay has elapsed since the last update the debounced value is the last value
\* of the run, and it has changed once if that value differs from the debounced
\* value before the run and not at all if it equals it.
C2_DebounceSettlesToLast ==
  burst.len > 0 =>
    IF Pending(timer)
      THEN /\ timer.value = inputText
           /\ timer.left = DelayTicks - burst.elapsed
           /\ burst.changes = 0
           /\ debouncedInput = burst.base
      ELSE /\ burst.elapsed = DelayTicks
           /\ debouncedInput = inputText
           /\ burst.changes = (IF inputText # burst.base THEN 1 ELSE 0)

\* C2 witness: a run of at least two updates has settled with one change.
C2_Witness ==
  burst.len = 2 /\ ~Pending(timer) /\ burst.changes = 1 /\ debouncedInput = inputText

\* C3: no two history entries have the same original up to case.
C3_NoDuplicateOriginals ==
  \A i, j \in 1..Len(history) :
    i # j => toLowerCase(history[i].original) # toLowerCase(history[j].original)

\* C3 witness: a response has replaced an entry whose original differs from the
\* request's text in case only.
C3_Witness ==
  /\ lastOp.name = "serviceResolves"
  /\ lastOp.replaced
  /\ history # <<>>
  /\ history[1].original = <<"A", "B", "C">>

\* C7: without a key no request reaches the service, every call is rejected
\* with the configuration message, and that message is the error stored.
C7_NoKeyConfigurationError ==
  ~apiKey =>
    /\ serviceCalls = 0
    /\ \A i \in 1..Len(inflight) :
         inflight[i].call.kind = "throw" /\ inflight[i].call.message = ConfigMsg
    /\ error \in {NoError, ConfigMsg}
    /\ lastOp.name = "awaitSettled" => error = ConfigMsg

\* C7 witness: without a key a call has been dispatched and has failed.
C7_Witness ==
  ~apiKey /\ dispatched > 0 /\ lastOp.name = "awaitSettled" /\ error = ConfigMsg

\* C8 (as claimed): no request is dispatched by the debounce settling on an
\* input that a selection from the history wrote.
C8_SelectCausesNoRequest ==
  [][(lastOp'.name = "timerCallback" /\ dispatched' > dispatched) => ~selected]_vars

\* C9: the step after clearAll has empty input, empty output and no error, and
\* has the history and the mode of the state before it.
C9_ClearAllResets ==
  [][lastOp'.name = "clearAll" =>
       /\ inputText' = <<>>
       /\ outputText' = <<>>
       /\ error' = NoError
       /\ history' = history
       /\ autoMode' = autoMode]_vars

\* C9 witness: clearAll has acted while a request was in flight, with a
\* non-empty history and in manual mode.
C9_Witness ==
  /\ lastOp.name = "clearAll"
  /\ inflight # <<>>
  /\ history # <<>>
  /\ ~autoMode
  /\ inputText = <<>> /\ outputText = <<>> /\ error = NoError

\* C10: with a key every dispatched call has made exactly one request, also
\* after failures, and a failure stores the generic error.
C10_OneRequestPerCall ==
  apiKey =>
    /\ serviceCalls = dispatched
    /\ \A i \in 1..Len(inflight) : inflight[i].call.kind = "request"
    /\ error \in {NoError, GenericMsg}
    /\ lastOp.name = "serviceRejects" => error = GenericMsg

\* C10 witness: with a key, requests have been made and the last one failed.
C10_Witness ==
  /\ apiKey
  /\ dispatched > 1
  /\ inflight = <<>>
  /\ lastOp.name = "serviceRejects"
  /\ error = GenericMsg


\* The entries of prev whose original differs from text up to case (positions)
Survivors(prev, text) ==
  {k \in 1..Len(prev) : toLowerCase(prev[k].original) # toLowerCase(text)}

\* C4: the history never holds more than 10 entries, and an insertion of an
\* original not yet present into a history of 10 leaves 10 entries, dropping
\* the last entry of the history before it and no other.
C4_CapacityEvictsOldest ==
  /\ Len(history) <= HistoryCap
  /\ (/\ upsertArgs.inserts > 0
      /\ Len(upsertArgs.prev) = HistoryCap
      /\ Survivors(upsertArgs.prev, upsertArgs.text) = 1..HistoryCap)
     => /\ Len(history) = HistoryCap
        /\ \A k \in 1..(HistoryCap - 1) :
             \E j \in 1..Len(history) : history[j] = upsertArgs.prev[k]
        /\ \A j \in 1..Len(history) : history[j] # upsertArgs.prev[HistoryCap]

\* C4 witness: an original not present has been inserted into a full history.
C4_Witness ==
  /\ upsertArgs.inserts > 0
  /\ Len(upsertArgs.prev) = HistoryCap
  /\ Survivors(upsertArgs.prev, upsertArgs.text) = 1..HistoryCap
  /\ Len(history) = HistoryCap

\* C5: after an insertion of (text, result) the first entry is (text, result),
\* it is the only entry with that original up to case, and the entries after
\* it are the previous entries with a different original, in their previous
\* order, as many as fit into 10 entries in all.
C5_UpsertResult ==
  upsertArgs.inserts > 0 =>
    LET prev == upsertArgs.prev
        keep == Survivors(prev, upsertArgs.text)
        Rank(k) == Cardinality({m \in keep : m <= k})
    IN  /\ Len(history) = Min(HistoryCap, 1 + Cardinality(keep))
        /\ history[1] = [original |-> upsertArgs.text, transliterated |-> upsertArgs.result]
        /\ Cardinality({j \in 1..Len(history) :
              toLowerCase(history[j].original) = toLowerCase(upsertArgs.text)}) = 1
        /\ \A j \in 2..Len(history) :
             \E k \in keep : Rank(k) = j - 1 /\ history[j] = prev[k]

\* C5 witness: an insertion has replaced an entry that was not the first one
\* and whose original differs in case, in a history with entries before and
\* after it.
C5_Witness ==
  /\ upsertArgs.inserts > 0
  /\ \E k \in 2..(Len(upsertArgs.prev) - 1) :
       /\ toLowerCase(upsertArgs.prev[k].original) = toLowerCase(upsertArgs.text)
       /\ upsertArgs.prev[k].original # upsertArgs.text
  /\ Len(history) = Len(upsertArgs.prev)

\* C6 (as claimed): for blank text the call returns the empty string and makes
\* no request, whether or not a key is configured.
C6_BlankReturnsEmpty ==
  (client.calls > 0 /\ trim(client.text) = <<>>) =>
    (client.kind = "return" /\ client.value = <<>> /\ client.requests = 0)

\* C6 (amended): for blank text the call makes no request; with a key it
\* returns the empty string, without a key it fails with the configuration
\* error.
C6_BlankMakesNoRequest ==
  (client.calls > 0 /\ trim(client.text) = <<>>) =>
    /\ client.requests = 0
    /\ apiKey => (client.kind = "return" /\ client.value = <<>>)
    /\ ~apiKey => (client.kind = "throw" /\ client.message = ConfigMsg)

\* C6 witness: with a key, a call with white space only has returned the empty
\* string after an earlier call made a request.
C6_Witness ==
  /\ apiKey
  /\ client.calls > 1
  /\ serviceCalls > 0
  /\ client.text = <<" ", " ">>
  /\ client.kind = "return"
  /\ client.value = <<>>

\* Entry i of inflight is the request whose response this step applies.
Applied(i) ==
  /\ i \in 1..Len(inflight)
  /\ lastOp'.name = "serviceResolves"
  /\ inflight' = RemoveAt(inflight, i, TRUE)

SettleOps == {"serviceResolves", "serviceRejects", "awaitSettled"}

\* C11 (as claimed): isLoading is true exactly when a request is in flight.
C11_LoadingIffInFlight ==
  isLoading <=> (inflight # <<>>)

\* C12 (as claimed): a toggle of the mode with a non-empty debounced input
\* dispatches no request.
C12_ToggleDispatchesNothing ==
  [][(lastOp'.name = "toggleAutoMode" /\ debouncedInput # <<>>)
       => dispatched' = dispatched]_vars

\* C12 (amended): a request is dispatched only by the manual trigger, by a
\* change of the debounced value in automatic mode, or by the toggle from
\* manual to automatic; the toggle to automatic dispatches exactly when the
\* debounced input is not blank, the toggle to manual never.
C12_AutoDispatch ==
  [][/\ dispatched' > dispatched
          => lastOp'.name \in {"manualTrigger", "timerCallback", "toggleAutoMode"}
     /\ lastOp'.name = "timerCallback"
          => (dispatched' > dispatched <=>
                (autoMode /\ debouncedInput' # debouncedInput
                          /\ trim(debouncedInput') # <<>>))
     /\ lastOp'.name = "toggleAutoMode"
          => /\ debouncedInput' = debouncedInput
             /\ dispatched' > dispatched <=> (autoMode' /\ trim(debouncedInput) # <<>>)
             /\ dispatched' > dispatched
                  => inflight'[Len(inflight')].text = debouncedInput]_vars

\* C12 witness: the toggle to automatic mode has dispatched a request for the
\* debounced input.
C12_Witness ==
  /\ lastOp.name = "toggleAutoMode"
  /\ lastOp.sent
  /\ autoMode
  /\ inflight # <<>>
  /\ inflight[Len(inflight)].text = debouncedInput

\* C13 (as claimed): a settlement that follows clearAll with no user action in
\* between changes neither output, nor error, nor history.
C13_SettlementAfterClearDiscarded ==
  [][(lastOp.name = "clearAll" /\ lastOp'.name \in SettleOps)
       => (outputText' = outputText /\ error' = error /\ history' = history)]_vars

\* C14: a failed settlement stores the failure's message and leaves output,
\* input and history as they were.
C14_FailureSetsErrorOnly ==
  [][lastOp'.name \in {"serviceRejects", "awaitSettled"}
       => /\ error' = (IF lastOp'.name = "serviceRejects" THEN GenericMsg ELSE ConfigMsg)
          /\ outputText' = outputText
          /\ inputText' = inputText
          /\ history' = history]_vars

\* C14 witness: a request has failed with an output shown and a history kept.
C14_Witness ==
  /\ lastOp.name = "serviceRejects"
  /\ error = GenericMsg
  /\ outputText # <<>>
  /\ history # <<>>

\* C15: the state after a dispatch has no error, is loading, and has the output
\* of the state before.
C15_DispatchClearsError ==
  [][dispatched' > dispatched
       => (error' = NoError /\ isLoading' /\ outputText' = outputText)]_vars

\* C15 witness: a request has been dispatched after an earlier one succeeded,
\* with the output of that one shown.
C15_Witness ==
  /\ lastOp.sent
  /\ dispatched > 1
  /\ outputText # <<>>
  /\ error = NoError
  /\ isLoading

\* C16: a trigger with blank text (the debounced input changing to it in
\* automatic mode, the toggle to automatic mode, or the manual trigger)
\* dispatches nothing, empties the output and leaves isLoading as it was.
C16_BlankTriggerNoRequest ==
  [][(\/ /\ lastOp'.name = "timerCallback"
         /\ autoMode
         /\ debouncedInput' # debouncedInput
         /\ trim(debouncedInput') = <<>>
      \/ /\ lastOp'.name = "toggleAutoMode"
         /\ autoMode'
         /\ trim(debouncedInput) = <<>>
      \/ /\ lastOp'.name = "manualTrigger"
         /\ trim(inputText) = <<>>)
       => /\ dispatched' = dispatched
          /\ serviceCalls' = serviceCalls
          /\ inflight' = inflight
          /\ outputText' = <<>>
          /\ isLoading' = isLoading]_vars

\* C16 witness: in automatic mode the debounced input has changed to white
\* space while a request was in flight.
C16_Witness ==
  /\ lastOp.name = "timerCallback"
  /\ burst.changes = 1
  /\ autoMode
  /\ debouncedInput = <<" ">>
  /\ isLoading
  /\ outputText = <<>>

\* C17: every history entry has an original longer than 2 and a non-empty
\* transliterated; the history changes only by onClear and by a response with
\* a non-empty result for a text longer than 2.
C17_HistoryEntriesMeaningful ==
  [][/\ \A k \in 1..Len(history') :
          Len(history'[k].original) > MinHistoryLen /\ history'[k].transliterated # <<>>
     /\ history' # history =>
          \/ lastOp'.name = "onClear" /\ history' = <<>>
          \/ \E i \in 1..Len(inflight) :
               /\ Applied(i)
               /\ Len(inflight[i].text) > MinHistoryLen
               /\ outputText' # <<>>
     /\ \A i \in 1..Len(inflight) :
          (Applied(i) /\ (Len(inflight[i].text) <= MinHistoryLen \/ outputText' = <<>>))
            => history' = history]_vars

\* C17 witness: with an entry in the history, a response for a text of length
\* 2 has set the output and added nothing.
C17_Witness ==
  /\ lastOp.name = "serviceResolves"
  /\ Len(history) = 1
  /\ outputText # <<>>
  /\ outputText # history[1].transliterated

\* C18: an entry that a step adds to the history pairs the text of the request
\* whose response the step applies with the result of that response.
C18_HistoryPairsOwnResult ==
  [][\A k \in 1..Len(history') :
       \/ \E j \in 1..Len(history) : history[j] = history'[k]
       \/ /\ k = 1
          /\ history'[1].transliterated = outputText'
          /\ \E i \in 1..Len(inflight) :
               Applied(i) /\ inflight[i].text = history'[1].original]_vars

\* C18 witness: a response overtaken by the response of a later request has
\* added its entry while the input held another text.
C18_Witness ==
  /\ lastOp.name = "serviceResolves"
  /\ lastOp.stale
  /\ history # <<>>
  /\ history[1].transliterated = outputText
  /\ history[1].original # inputText
  /\ history[1].original # debouncedInput

\* C19 (as claimed): with nothing in flight and the request dispatched last
\* settled successfully, no error is shown.
C19_NoStaleError ==
  (inflight = <<>> /\ latest = "ok") => error = NoError

\* C20: in a run in which only the manual trigger dispatches, the trigger
\* fires in manual mode with non-empty input only, at most one request is in
\* flight, isLoading tells whether one is, and no response is overtaken.
C20_ManualOneAtATime ==
  /\ Len(inflight) <= 1
  /\ isLoading <=> (inflight # <<>>)
  /\ \A i \in 1..Len(inflight) : ~inflight[i].stale
  /\ ~lastOp.stale
  /\ lastOp.name = "manualTrigger"
       => (~autoMode /\ inputText # <<>> /\ (lastOp.sent <=> isLoading))

\* C20 witness: the manual trigger has dispatched a second request after the
\* first one settled.
C20_Witness ==
  /\ lastOp.name = "manualTrigger"
  /\ lastOp.sent
  /\ dispatched > 1
  /\ Len(inflight) = 1

====
